---------------------------- MODULE Spec2Model ----------------------------
(***************************************************************************)
(* Model of OMERO_Batch_3DMeasurements_.py: the batch script that connects *)
(* to OMERO, and for every image of a dataset thresholds one channel,      *)
(* labels the 3D objects, filters them (borders, minimum volume), measures *)
(* the survivors and writes a CSV table and a 3D ROI archive.              *)
(*                                                                         *)
(* A labelled object is a record [label, vol, txy, tz]:                    *)
(*   label  its position in the population (discovery order, from 1),      *)
(*   vol    its calibrated volume (obj.getVolumeUnit()),                   *)
(*   txy    its bounding box reaches the first/last x or y plane,          *)
(*   tz     its bounding box reaches the first/last z slice.               *)
(* The other measurements are library calls on the object; they are kept   *)
(* as values tagged with the measurement and the object they come from.    *)
(* Any library call may throw; the script has no try/except, so a thrown   *)
(* exception ends the script (pc = "aborted").                             *)
(* The two output files are followed at the current out_full_path: image   *)
(* titles are taken to differ and the destination to be empty at start, so *)
(* the files of an earlier image are never touched again and the paths of  *)
(* a newly opened image hold nothing.                                      *)
(***************************************************************************)
EXTENDS Integers, Sequences, FiniteSets

\* ---- bounds of the model ------------------------------------------------
NumImages  == 2      \* at most this many images in the dataset
MaxObjects == 2      \* at most this many labelled objects per image
VolSpan    == 0      \* volumes range over volMin-1 .. volMin+VolSpan

\* ---- script variables (lines 205-208) ------------------------------------
volMin == 5

VARIABLES
    filter_objects_touching_z, \* line 208 (the configured value of the run)
    gateway,                   \* "none" | "connected"   (line 219)
    imageIds,                  \* line 220-221
    idx,                       \* position of the batch loop in imageIds (line 225)
    pc,                        \* position of the script
    img,                       \* the labelled volume: its objects (line 258)
    pop,                       \* Objects3DPopulation (line 260)
    nb,                        \* line 261
    i,                         \* object loop counter (line 279)
    volume_list, mean_intensity_list, feret_list, compactness_list,
    object_number_list, surface_list, golgi_obj_to_remove,   \* lines 267-275
    out_full_path,             \* line 235: the image whose output paths are current
    csv_file,                  \* the file at outCSV (line 321)
    zip_file,                  \* the file at out_full_path + "_3DROI.zip" (line 325)
    started                    \* images the batch loop has reached (line 225)

vars == <<filter_objects_touching_z, gateway, imageIds, idx, pc, img, pop, nb, i,
          volume_list, mean_intensity_list, feret_list, compactness_list,
          object_number_list, surface_list, golgi_obj_to_remove,
          out_full_path, csv_file, zip_file, started>>

files == <<out_full_path, csv_file, zip_file>>

lists == <<volume_list, mean_intensity_list, feret_list, compactness_list,
           object_number_list, surface_list, golgi_obj_to_remove>>

Volumes == (volMin - 1)..(volMin + VolSpan)

\* the populations a labelled volume can yield: objects 1..n in label order
Populations ==
    UNION { { [k \in 1..n |-> [label |-> k, vol |-> f[k][1],
                              txy |-> f[k][2], tz |-> f[k][3]]] :
              f \in [1..n -> Volumes \X BOOLEAN \X BOOLEAN] } : n \in 0..MaxObjects }

NoFile == [exists |-> FALSE, content |-> <<>>]

\* ---- library calls on one object -----------------------------------------
\* obj.touchBorders(img, Z): x and y borders are always tested, z only if Z
TouchBordersIgnoreFlag(obj, Z) == obj.txy \/ obj.tz
TouchBorders(obj, Z) == obj.txy \/ (Z /\ obj.tz)

getVolumeUnit(obj) == obj.vol
getAreaUnit(obj) == <<"surface", obj.label>>
getPixMeanValue(obj) == <<"meanIntensity", obj.label>>
getFeret(obj) == <<"feret", obj.label>>
getCompactness(obj) == <<"compactness", obj.label>>

\* line 290: the minimum-volume test
BelowMinInverted(object_volume) == object_volume > volMin
BelowMin(object_volume) == object_volume < volMin

\* line 299: the object number written for a survivor is the loop index
ObjectNumberSequential(k) == Len(object_number_list)
ObjectNumber(k) == k

\* pop.getObject(i), 0-based
getObject(p, k) == p[k + 1]

\* pop.removeObject(obj): the population without that object
RemoveObjectFirst(p, obj) == IF Len(p) = 0 THEN p ELSE Tail(p)
RemoveObject(p, obj) == SelectSeq(p, LAMBDA o : o # obj)

\* lines 323-324: for obj in golgi_obj_to_remove: pop.removeObject(obj)
RECURSIVE RemoveAll(_, _)
RemoveAll(p, toRemove) ==
    IF toRemove = <<>> THEN p
    ELSE RemoveAll(RemoveObject(p, Head(toRemove)), Tail(toRemove))

\* pop.saveObjects(path): the archive holds the objects of the population
SaveObjectsUnfiltered(p) == img
SaveObjects(p) == p

Min2(a, b) == IF a < b THEN a ELSE b

\* line 334-335: the header is one row
Header == <<"Object number, Object Volume, Compactness, Surface, Mean Intensity, Feret diameter">>

\* line 337: izip stops at the shortest list
IzipLen(a, b, c, d, e, f) ==
    Min2(Len(a), Min2(Len(b), Min2(Len(c), Min2(Len(d), Min2(Len(e), Len(f))))))
IzipSwapped(a, b, c, d, e, f) ==
    [k \in 1..IzipLen(a, b, c, d, e, f) |-> <<a[k], b[k], d[k], c[k], e[k], f[k]>>]
Izip(a, b, c, d, e, f) ==
    [k \in 1..IzipLen(a, b, c, d, e, f) |-> <<a[k], b[k], c[k], d[k], e[k], f[k]>>]

\* ---- initial state -------------------------------------------------------
Init ==
    /\ filter_objects_touching_z \in BOOLEAN
    /\ gateway = "none"
    /\ imageIds = <<>>
    /\ idx = 0
    /\ pc = "connect"
    /\ img = <<>>
    /\ pop = <<>>
    /\ nb = 0
    /\ i = 0
    /\ volume_list = <<>>
    /\ mean_intensity_list = <<>>
    /\ feret_list = <<>>
    /\ compactness_list = <<>>
    /\ object_number_list = <<>>
    /\ surface_list = <<>>
    /\ golgi_obj_to_remove = <<>>
    /\ out_full_path = 0
    /\ csv_file = NoFile
    /\ zip_file = NoFile
    /\ started = {}

\* ---- the script ----------------------------------------------------------
\* line 219: gateway = omeroConnect()
OmeroConnect ==
    /\ pc = "connect"
    /\ gateway' = "connected"
    /\ pc' = "getImageIds"
    /\ UNCHANGED <<filter_objects_touching_z, imageIds, idx, img, pop, nb, i,
                   lists, files, started>>

\* line 129: gateway.connect(cred) throws
OmeroConnectFail ==
    /\ pc = "connect"
    /\ pc' = "aborted"
    /\ UNCHANGED <<filter_objects_touching_z, gateway, imageIds, idx, img, pop,
                   nb, i, lists, files, started>>

\* lines 220-225: the sorted ids of the dataset, then the head of the batch loop
GetImageIds ==
    /\ pc = "getImageIds"
    /\ \E n \in 0..NumImages :
          /\ imageIds' = [k \in 1..n |-> k]
          /\ idx' = IF n = 0 THEN 0 ELSE 1
          /\ started' = IF n = 0 THEN {} ELSE {1}
          /\ pc' = IF n = 0 THEN "finished" ELSE "open"
    /\ UNCHANGED <<filter_objects_touching_z, gateway, img, pop, nb, i, lists, files>>

\* lines 227-235: open the image from the server; the output paths are now
\* those of this image, where nothing has been written yet
OpenImage ==
    /\ pc = "open"
    /\ out_full_path' = imageIds[idx]
    /\ csv_file' = NoFile
    /\ zip_file' = NoFile
    /\ pc' = "threshold"
    /\ UNCHANGED <<filter_objects_touching_z, gateway, imageIds, idx, img, pop,
                   nb, i, lists, started>>

\* lines 237-247: duplicate the channel, Otsu threshold, convert to mask
Threshold ==
    /\ pc = "threshold"
    /\ pc' = "segment"
    /\ UNCHANGED <<filter_objects_touching_z, gateway, imageIds, idx, img, pop,
                   nb, i, lists, files, started>>

\* lines 250-275: 3D segmentation, population, empty accumulators
Segment ==
    /\ pc = "segment"
    /\ \E p \in Populations :
          /\ img' = p
          /\ pop' = p
          /\ nb' = Len(p)
    /\ i' = 0
    /\ volume_list' = <<>>
    /\ mean_intensity_list' = <<>>
    /\ feret_list' = <<>>
    /\ compactness_list' = <<>>
    /\ object_number_list' = <<>>
    /\ surface_list' = <<>>
    /\ golgi_obj_to_remove' = <<>>
    /\ pc' = "loop"
    /\ UNCHANGED <<filter_objects_touching_z, gateway, imageIds, idx, files, started>>

\* lines 284-286: the object touches the borders
LoopTouch ==
    /\ pc = "loop" /\ i < nb
    /\ TouchBorders(getObject(pop, i), filter_objects_touching_z)
    /\ golgi_obj_to_remove' = Append(golgi_obj_to_remove, getObject(pop, i))
    /\ i' = i + 1
    /\ UNCHANGED <<filter_objects_touching_z, gateway, imageIds, idx, pc, img,
                   pop, nb, volume_list, mean_intensity_list, feret_list,
                   compactness_list, object_number_list, surface_list, files, started>>

\* lines 287-292 without the append of line 291
LoopSmallForgets ==
    /\ pc = "loop" /\ i < nb
    /\ ~TouchBorders(getObject(pop, i), filter_objects_touching_z)
    /\ BelowMin(getVolumeUnit(getObject(pop, i)))
    /\ i' = i + 1
    /\ UNCHANGED <<filter_objects_touching_z, gateway, imageIds, idx, pc, img,
                   pop, nb, lists, files, started>>

\* lines 287-292: the object is below the minimum volume
LoopSmall ==
    /\ pc = "loop" /\ i < nb
    /\ ~TouchBorders(getObject(pop, i), filter_objects_touching_z)
    /\ BelowMin(getVolumeUnit(getObject(pop, i)))
    /\ golgi_obj_to_remove' = Append(golgi_obj_to_remove, getObject(pop, i))
    /\ i' = i + 1
    /\ UNCHANGED <<filter_objects_touching_z, gateway, imageIds, idx, pc, img,
                   pop, nb, volume_list, mean_intensity_list, feret_list,
                   compactness_list, object_number_list, surface_list, files, started>>

\* lines 294-318: the object survives and is measured
LoopMeasure ==
    /\ pc = "loop" /\ i < nb
    /\ ~TouchBorders(getObject(pop, i), filter_objects_touching_z)
    /\ ~BelowMin(getVolumeUnit(getObject(pop, i)))
    /\ surface_list' = Append(surface_list, getAreaUnit(getObject(pop, i)))
    /\ volume_list' = Append(volume_list, getVolumeUnit(getObject(pop, i)))
    /\ object_number_list' = Append(object_number_list, ObjectNumber(i))
    /\ mean_intensity_list' = Append(mean_intensity_list, getPixMeanValue(getObject(pop, i)))
    /\ feret_list' = Append(feret_list, getFeret(getObject(pop, i)))
    /\ compactness_list' = Append(compactness_list, getCompactness(getObject(pop, i)))
    /\ i' = i + 1
    /\ UNCHANGED <<filter_objects_touching_z, gateway, imageIds, idx, pc, img,
                   pop, nb, golgi_obj_to_remove, files, started>>

\* lines 294-312: a measurement throws after the first appends
LoopMeasureFail ==
    /\ pc = "loop" /\ i < nb
    /\ ~TouchBorders(getObject(pop, i), filter_objects_touching_z)
    /\ ~BelowMin(getVolumeUnit(getObject(pop, i)))
    /\ surface_list' = Append(surface_list, getAreaUnit(getObject(pop, i)))
    /\ volume_list' = Append(volume_list, getVolumeUnit(getObject(pop, i)))
    /\ object_number_list' = Append(object_number_list, ObjectNumber(i))
    /\ pc' = "aborted"
    /\ UNCHANGED <<filter_objects_touching_z, gateway, imageIds, idx, img, pop,
                   nb, i, mean_intensity_list, feret_list, compactness_list,
                   golgi_obj_to_remove, files, started>>

\* line 279: range(0, nb) is exhausted; lines 320-321
LoopExit ==
    /\ pc = "loop" /\ i = nb
    /\ pc' = "remove"
    /\ UNCHANGED <<filter_objects_touching_z, gateway, imageIds, idx, img, pop,
                   nb, i, lists, files, started>>

\* lines 323-324
RemoveObjects ==
    /\ pc = "remove"
    /\ pop' = RemoveAll(pop, golgi_obj_to_remove)
    /\ pc' = "save"
    /\ UNCHANGED <<filter_objects_touching_z, gateway, imageIds, idx, img, nb,
                   i, lists, files, started>>

\* line 325
SaveArchive ==
    /\ pc = "save"
    /\ zip_file' = [exists |-> TRUE, content |-> SaveObjects(pop)]
    /\ pc' = "csvOpen"
    /\ UNCHANGED <<filter_objects_touching_z, gateway, imageIds, idx, img, pop,
                   nb, i, lists, out_full_path, csv_file, started>>

\* line 330: open(outCSV, 'wb') creates or truncates the file
CsvOpen ==
    /\ pc = "csvOpen"
    /\ csv_file' = [exists |-> TRUE, content |-> <<>>]
    /\ pc' = "writeHeader"
    /\ UNCHANGED <<filter_objects_touching_z, gateway, imageIds, idx, img, pop,
                   nb, i, lists, out_full_path, zip_file, started>>

\* lines 334-335
WriteHeader ==
    /\ pc = "writeHeader"
    /\ csv_file' = [csv_file EXCEPT !.content = Append(@, Header)]
    /\ pc' = "writeRows"
    /\ UNCHANGED <<filter_objects_touching_z, gateway, imageIds, idx, img, pop,
                   nb, i, lists, out_full_path, zip_file, started>>

\* lines 336-337
WriteRows ==
    /\ pc = "writeRows"
    /\ csv_file' = [csv_file EXCEPT !.content =
                        @ \o Izip(object_number_list, volume_list, compactness_list,
                                  surface_list, mean_intensity_list, feret_list)]
    /\ pc' = "close"
    /\ UNCHANGED <<filter_objects_touching_z, gateway, imageIds, idx, img, pop,
                   nb, i, lists, out_full_path, zip_file, started>>

\* lines 339-340, then the next iteration of line 225 or lines 342-344
NextImage ==
    /\ pc = "close"
    /\ idx' = idx + 1
    /\ started' = IF idx < Len(imageIds) THEN started \cup {imageIds[idx + 1]}
                                          ELSE started
    /\ pc' = IF idx < Len(imageIds) THEN "open" ELSE "finished"
    /\ UNCHANGED <<filter_objects_touching_z, gateway, imageIds, img, pop, nb,
                   i, lists, files>>

\* a library call of one of these steps throws; nothing catches it
ThrowPoints == {"getImageIds", "open", "threshold", "segment", "remove", "save",
                "csvOpen", "writeHeader", "writeRows"}

Throw ==
    /\ pc \in ThrowPoints
    /\ pc' = "aborted"
    /\ UNCHANGED <<filter_objects_touching_z, gateway, imageIds, idx, img, pop,
                   nb, i, lists, files, started>>

Next ==
    \/ OmeroConnect
    \/ OmeroConnectFail
    \/ GetImageIds
    \/ OpenImage
    \/ Threshold
    \/ Segment
    \/ LoopTouch
    \/ LoopSmall
    \/ LoopMeasure
    \/ LoopMeasureFail
    \/ LoopExit
    \/ RemoveObjects
    \/ SaveArchive
    \/ CsvOpen
    \/ WriteHeader
    \/ WriteRows
    \/ NextImage
    \/ Throw

Spec == Init /\ [][Next]_vars


\* ---- vocabulary of the properties ---------------------------------------
\* the object loop of the current image has finished and nothing has thrown
AfterLoop == pc \in {"remove", "save", "csvOpen", "writeHeader", "writeRows", "close"}

\* the archive of the current image has been saved and nothing has thrown
AfterSave == pc \in {"csvOpen", "writeHeader", "writeRows", "close"}

Ended == pc \in {"finished", "aborted"}

Range(s) == {s[k] : k \in 1..Len(s)}

\* the files of the current image
Table == csv_file
Archive == zip_file

\* the data rows of the table (the rows after the header)
DataRows == IF Len(Table.content) = 0 THEN <<>> ELSE Tail(Table.content)

\* the object of the labelled volume a row's object number designates
RowObject(row) == img[row[1] + 1]

\* the two filters of section 4.3, on the labelled object
FlaggedByVolume(o) == o.vol < volMin
FlaggedByZ(o) == filter_objects_touching_z /\ o.tz
FlaggedByXY(o) == o.txy
Survives(o) == ~FlaggedByXY(o) /\ ~FlaggedByZ(o) /\ ~FlaggedByVolume(o)
Survivors == SelectSeq(img, Survives)

\* the row the table is to hold for a surviving object
RecordOf(o) == <<o.label - 1, o.vol, <<"compactness", o.label>>, <<"surface", o.label>>,
                 <<"meanIntensity", o.label>>, <<"feret", o.label>>>>

\* ---- C1 ------------------------------------------------------------------
\* C1: once the object loop has finished, no object with a row (in the
\* accumulators, and in the table once it is written) has a calibrated volume
\* below volMin, and with border filtering enabled none touches the first or
\* last z-slice.
C1_FilterCompleteness ==
    /\ AfterLoop =>
          \A k \in 1..Len(object_number_list) :
              /\ k <= Len(volume_list) /\ volume_list[k] >= volMin
              /\ img[object_number_list[k] + 1].vol >= volMin
              /\ filter_objects_touching_z => ~img[object_number_list[k] + 1].tz
    /\ pc = "close" =>
          \A k \in 1..Len(DataRows) :
              /\ DataRows[k][2] >= volMin
              /\ RowObject(DataRows[k]).vol >= volMin
              /\ filter_objects_touching_z => ~RowObject(DataRows[k]).tz

C1_Witness ==
    /\ pc = "close" /\ filter_objects_touching_z
    /\ Len(DataRows) >= 1
    /\ \E k \in 1..Len(img) :
          (img[k].tz /\ ~img[k].txy /\ img[k].vol >= volMin) \/ img[k].vol < volMin

\* ---- C2 ------------------------------------------------------------------
\* C2: once the object loop has finished, survivors plus removed objects are
\* as many as the objects of the population built from the labelled volume,
\* and every object is in exactly one of the two sets.
C2_PopulationConservation ==
    AfterLoop =>
        /\ nb = Len(img)
        /\ Len(object_number_list) + Len(golgi_obj_to_remove) = nb
        /\ \A k \in 1..nb :
              ((k - 1) \in Range(object_number_list)) # (img[k] \in Range(golgi_obj_to_remove))
        /\ Cardinality(Range(object_number_list)) = Len(object_number_list)
        /\ Cardinality(Range(golgi_obj_to_remove)) = Len(golgi_obj_to_remove)

C2_Witness ==
    /\ AfterLoop /\ nb = MaxObjects
    /\ Len(object_number_list) >= 1
    /\ \E k \in 1..Len(golgi_obj_to_remove) : golgi_obj_to_remove[k].vol < volMin

\* ---- C3 ------------------------------------------------------------------
\* C3: a failure on one image does not stop the batch: when the script has
\* ended, the batch loop has reached every image of the dataset.
C3_BatchContinuesAfterFailure ==
    Ended => \A k \in 1..Len(imageIds) : imageIds[k] \in started

\* ---- C4 ------------------------------------------------------------------
\* C4: the connection opened before the batch is released on every
\* execution: once the script has ended, normally or by a fatal error, the
\* gateway is no longer connected.
C4_ConnectionReleased ==
    Ended => gateway # "connected"

\* ---- C5 ------------------------------------------------------------------
\* C5: an image whose processing failed has neither of its two output files
\* on disk.
C5_NoPartialOutput ==
    (pc = "aborted" /\ idx >= 1 /\ out_full_path = imageIds[idx]) =>
        /\ ~csv_file.exists
        /\ ~zip_file.exists

\* ---- C6 ------------------------------------------------------------------
\* C6 as stated: the object numbers of the rows are 0, 1, ..., k-1 in row order.
C6_SequentialIndex ==
    pc = "close" => \A k \in 1..Len(DataRows) : DataRows[k][1] = k - 1

\* C6 as amended: the object number of a row is the 0-based position of its
\* object in the population as built (before any removal): it is the row's
\* 0-based position plus the number of removed objects that precede the
\* object, so the numbers increase strictly in row order.
C6_PopulationIndex ==
    pc = "close" =>
        /\ \A k \in 1..Len(DataRows) :
              /\ DataRows[k][1] \in 0..(nb - 1)
              /\ DataRows[k][4] = <<"surface", RowObject(DataRows[k]).label>>
              /\ DataRows[k][1] = (k - 1) +
                    Cardinality({r \in 1..Len(golgi_obj_to_remove) :
                                    golgi_obj_to_remove[r].label <= DataRows[k][1]})
        /\ \A k \in 1..(Len(DataRows) - 1) : DataRows[k][1] < DataRows[k + 1][1]

C6_Witness ==
    /\ pc = "close"
    /\ \E k \in 1..Len(DataRows) : DataRows[k][1] # k - 1

\* ---- C7 ------------------------------------------------------------------
\* C7: the archive saved for an image holds exactly the surviving objects,
\* in population order: every object flagged by a filter was removed from
\* the population before the save, no survivor was removed, and no flagged
\* object has a row in the table.
C7_ArchiveHoldsSurvivors ==
    /\ AfterSave =>
          /\ Archive.exists
          /\ Archive.content = Survivors
          /\ pop = Survivors
          /\ \A k \in 1..Len(img) : ~Survives(img[k]) <=> img[k] \in Range(golgi_obj_to_remove)
    /\ pc = "close" =>
          \A k \in 1..Len(DataRows) : Survives(RowObject(DataRows[k]))

C7_Witness ==
    /\ pc = "close"
    /\ Len(Archive.content) >= 1
    /\ Len(Archive.content) < Len(img)
    /\ ~Survives(img[1])

\* ---- C8 ------------------------------------------------------------------
\* C8: the table is the header row followed by one row per surviving object,
\* in population order, each row holding that object's own object number,
\* volume, compactness, surface, mean intensity and Feret diameter in this
\* order; the six accumulators have one length whenever the table is written.
C8_TableRows ==
    /\ pc \in {"csvOpen", "writeHeader", "writeRows", "close"} =>
          /\ Len(volume_list) = Len(object_number_list)
          /\ Len(compactness_list) = Len(object_number_list)
          /\ Len(surface_list) = Len(object_number_list)
          /\ Len(mean_intensity_list) = Len(object_number_list)
          /\ Len(feret_list) = Len(object_number_list)
    /\ pc = "close" =>
          /\ Table.exists
          /\ Len(Table.content) = 1 + Len(Survivors)
          /\ Table.content[1] = Header
          /\ \A k \in 1..Len(Survivors) : Table.content[k + 1] = RecordOf(Survivors[k])

C8_Witness ==
    /\ pc = "close"
    /\ Len(DataRows) >= 2
    /\ DataRows[1] # DataRows[2]
    /\ DataRows[1][2] = volMin

\* ---- C9 ------------------------------------------------------------------
\* C9 as stated: with border filtering disabled the border-touch filter flags
\* no object, so every removed object has a volume below the minimum.
C9_DisabledFlagsNothing ==
    (AfterLoop /\ ~filter_objects_touching_z) =>
        \A k \in 1..Len(golgi_obj_to_remove) : golgi_obj_to_remove[k].vol < volMin

\* C9 as amended: the switch governs the z test only. An object that touches
\* the first or last z-slice, does not touch an x or y border and is not
\* below the minimum volume is removed exactly when border filtering is
\* enabled; with it disabled, every removed object touches an x or y border
\* or is below the minimum volume.
C9_SwitchGovernsZOnly ==
    AfterLoop =>
        /\ \A k \in 1..Len(img) :
              (img[k].tz /\ ~img[k].txy /\ img[k].vol >= volMin) =>
                  /\ (img[k] \in Range(golgi_obj_to_remove)) <=> filter_objects_touching_z
                  /\ ((k - 1) \in Range(object_number_list)) <=> ~filter_objects_touching_z
        /\ ~filter_objects_touching_z =>
              \A k \in 1..Len(golgi_obj_to_remove) :
                  golgi_obj_to_remove[k].txy \/ golgi_obj_to_remove[k].vol < volMin

C9_Witness ==
    /\ AfterLoop /\ ~filter_objects_touching_z
    /\ \E k \in 1..Len(img) :
          /\ img[k].tz /\ ~img[k].txy /\ img[k].vol >= volMin
          /\ (k - 1) \in Range(object_number_list)
    /\ \E k \in 1..Len(golgi_obj_to_remove) :
          golgi_obj_to_remove[k].txy /\ golgi_obj_to_remove[k].vol >= volMin

\* ---- C10 -----------------------------------------------------------------
\* C10: an image without a surviving object completes: its table holds the
\* header row only, its archive holds no object, and the batch then goes on
\* to the next image (or ends after the last one).
C10_EmptyPopulation ==
    /\ [](pc = "close" /\ Survivors = <<>> =>
             /\ Table.exists /\ Table.content = <<Header>>
             /\ Archive.exists /\ Archive.content = <<>>)
    /\ [][(pc = "close" /\ Survivors = <<>>) =>
             /\ idx' = idx + 1
             /\ pc' = IF idx < Len(imageIds) THEN "open" ELSE "finished"
             /\ idx < Len(imageIds) => imageIds[idx + 1] \in started']_vars

C10_Witness ==
    /\ pc = "open" /\ idx = 2
    /\ nb >= 1 /\ object_number_list = <<>>
    /\ out_full_path = imageIds[1]
    /\ csv_file.content = <<Header>>
    /\ zip_file.exists /\ zip_file.content = <<>>

=============================================================================
